---------------------------- MODULE Spec2Model ----------------------------
(***************************************************************************)
(* A model of the planning engine of IngressPlanner (src/planner.py): the  *)
(* planning session (IngressPlanner.portals), add_portal, plan and         *)
(* multi_agent_plan, with the helpers they call.                           *)
(*                                                                         *)
(* Coordinates are integers (grid steps), so every orientation test is     *)
(* exact.  Three libraries the code calls are modelled by their contract:  *)
(*   geopy.geodesic   -> calculate_distance: a symmetric distance in       *)
(*                       meters, growing with the planar separation;       *)
(*   scipy Delaunay   -> Delaunay: any triangulation whose triangles have  *)
(*                       an empty circumcircle, its simplices in an order  *)
(*                       the library chooses; QhullError on a flat input;  *)
(*   shapely          -> ShapelyCross: intersects() and not touches().     *)
(* The iteration order of a Python set is the order of the slots of its    *)
(* hash table: SetOrder draws the hash from a small family (seed).         *)
(***************************************************************************)
EXTENDS Integers, Sequences, FiniteSets, TLC

\* ------------------------------------------------------------------ bounds
\* most portals a session holds
MaxPortals == 4
\* largest agent count passed to multi_agent_plan (the smallest is -1)
MaxAgents == 3
\* hash seeds 0..MaxSeed: the family of set iteration orders
MaxSeed == 1
\* simplex orders 0..MaxQhullOrder the triangulation library may return
MaxQhullOrder == 1
\* slots of the hash table that orders a set's iteration
TableSize == 8
\* a tenth of the meters one grid step stands for
MetersPerTenth == 150

\* distances tried within ApSlack meters of each bracket bound of Link.ap
ApSlack == 1

\* most lines of a portal file read
MaxLines == 2
\* most portals a selector writes to a file
MaxSaved == 2
\* the largest coordinate of a point handed to the geometric tests alone
GridMax == 2
\* the longest candidate list sorted alone
MaxCands == 3
\* the longest link list handed to the field deriver and the path builder alone
MaxLinks == 5
\* the longest link list of the walks followed to their end under fairness
MaxWalkLinks == 3
\* how many agents more than MaxAgents a crowded plan is asked for
MaxIdle == 2

\* the places a portal can be put: (lat, lon) in grid steps.  The four
\* corners of a square lie on one circle; (1,1) lies on the diagonal from
\* (0,0) to (4,4) and strictly inside the triangle (0,0) (4,0) (0,4).
Sites == { <<0, 0>>, <<4, 0>>, <<0, 4>>, <<4, 4>>, <<1, 1>> }

AgentCounts == (0 - 1)..MaxAgents
Seeds == 0..MaxSeed
QhullOrders == 0..MaxQhullOrder

\* ------------------------------------------------------- sequence helpers
Min2(a, b) == IF a < b THEN a ELSE b
Max2(a, b) == IF a > b THEN a ELSE b

RECURSIVE SumSeq(_)
SumSeq(s) == IF s = <<>> THEN 0 ELSE Head(s) + SumSeq(Tail(s))

Range(s) == { s[i] : i \in DOMAIN s }

\* rank[i]: the place of the i-th element once sorted, where before[i][j]
\* tells that the i-th element sorts before the j-th
RankOf(before) ==
    [ i \in DOMAIN before |-> Cardinality({ j \in DOMAIN before :
                                  \/ before[j][i]
                                  \/ (~before[i][j] /\ j < i) }) + 1 ]

ByRank(s, rank) == [ k \in DOMAIN s |-> s[CHOOSE i \in DOMAIN s : rank[i] = k] ]

\* a stable sort: elements that before does not order keep the order they
\* have in s
StableSort(s, before) == ByRank(s, RankOf(before))

\* ------------------------------------------------------------ data model
LINK_AP == [ b \in 1..8 |->
    CASE b = 1 -> 313  [] b = 2 -> 1250 [] b = 3 -> 1563 [] b = 4 -> 2500
      [] b = 5 -> 3125 [] b = 6 -> 3750 [] b = 7 -> 4375 [] b = 8 -> 5000 ]

FIELD_AP == 1250

\* most portals a field may enclose (the literal 8 of _greedy_optimize)
MaxPointsInField == 8

\* a name is the sequence of its characters; NoName is the name None
NoName == << "None" >>

Portal(id, name, lat, lon) == [ id |-> id, name |-> name, lat |-> lat, lon |-> lon ]

\* Portal.__eq__ comparing every field, as a dataclass does by default
PortalEqFields(p, q) == p = q

\* Portal.__eq__: by id alone
PortalEq(p, q) == p.id = q.id

\* Portal.__hash__: hash((self.id, self.lat, self.lon)), as the tuple hashed;
\* the tuples of the model have pairwise different hashes
PortalHash(p) == << p.id, p.lat, p.lon >>

\* a set of portals after set.add(p): inserted are its members in the order
\* they were added; p is found when a member has its hash and equals it
PortalSetAdd(inserted, p) ==
    IF \E i \in DOMAIN inserted : PortalHash(inserted[i]) = PortalHash(p) /\ PortalEq(inserted[i], p)
    THEN inserted ELSE Append(inserted, p)

Link(p1, p2, distance) == [ portal1 |-> p1, portal2 |-> p2, distance |-> distance ]

\* Link.ap with every bracket open at its lower bound
LinkApOpenBelow(l) ==
    IF l.distance <= 1000 THEN 0
    ELSE IF l.distance <= 5000 THEN LINK_AP[1]
    ELSE IF l.distance <= 10000 THEN LINK_AP[2]
    ELSE IF l.distance <= 25000 THEN LINK_AP[3]
    ELSE IF l.distance <= 50000 THEN LINK_AP[4]
    ELSE IF l.distance <= 100000 THEN LINK_AP[5]
    ELSE IF l.distance <= 150000 THEN LINK_AP[6]
    ELSE IF l.distance <= 200000 THEN LINK_AP[7]
    ELSE LINK_AP[8]

\* Link.ap: the bracket of distance / 1000.0 (km < b  <=>  meters < 1000 b)
LinkAp(l) ==
    LET d == l.distance
    IN  IF d < 1000 THEN 0
        ELSE IF d < 5000 THEN LINK_AP[1]
        ELSE IF d < 10000 THEN LINK_AP[2]
        ELSE IF d < 25000 THEN LINK_AP[3]
        ELSE IF d < 50000 THEN LINK_AP[4]
        ELSE IF d < 100000 THEN LINK_AP[5]
        ELSE IF d < 150000 THEN LINK_AP[6]
        ELSE IF d < 200000 THEN LINK_AP[7]
        ELSE LINK_AP[8]

\* the id pair of a Link in the order of its ends
LinkIdsOrdered(l) == << l.portal1.id, l.portal2.id >>

\* the unordered id pair a Link hashes and compares by
LinkIds(l) == << Min2(l.portal1.id, l.portal2.id), Max2(l.portal1.id, l.portal2.id) >>

\* Link.__eq__
LinkEq(l1, l2) == LinkIds(l1) = LinkIds(l2)

\* Link.__hash__: the hash of the id pair, as the pair itself
LinkHash(l) == LinkIds(l)

\* `link in links` for a list or set of Links
LinkIn(l, ls) == \E x \in ls : LinkEq(l, x)

Field(p1, p2, p3, links) == [ portal1 |-> p1, portal2 |-> p2, portal3 |-> p3, links |-> links ]

\* s.add(l) for a set of Links held in insertion order
SetAdd(inserted, l) == IF LinkIn(l, Range(inserted)) THEN inserted ELSE Append(inserted, l)

\* Field.ap
FieldAp(f) == FIELD_AP

EmptySolution == [ links |-> <<>>, fields |-> <<>>, total_ap |-> 0, distance |-> 0, path |-> <<>> ]

\* --------------------------------------------------------------- geometry
\* floor of the square root of 100 n
SqrtTable == [ n \in 0..300 |-> CHOOSE r \in 0..180 : r * r <= 100 * n /\ 100 * n < (r + 1) * (r + 1) ]

Isqrt100(n) ==
    IF n \in DOMAIN SqrtTable THEN SqrtTable[n]
    ELSE CHOOSE r \in 0..(10 * n + 10) : r * r <= 100 * n /\ 100 * n < (r + 1) * (r + 1)

\* _calculate_distance: meters between two portals
calculate_distance(p1, p2) ==
    LET dx == p1.lat - p2.lat
        dy == p1.lon - p2.lon
    IN  Isqrt100(dx * dx + dy * dy) * MetersPerTenth

\* twice the signed area of the triangle a b c, points as <<x, y>>
Cross(a, b, c) == (b[1] - a[1]) * (c[2] - a[2]) - (b[2] - a[2]) * (c[1] - a[1])

\* ccw of _line_segments_intersect: strict, on points <<lon, lat>>
ccw(A, B, C) == (C[2] - A[2]) * (B[1] - A[1]) > (B[2] - A[2]) * (C[1] - A[1])

\* _line_segments_intersect
line_segments_intersect(p1, p2, p3, p4) ==
    /\ ccw(p1, p3, p4) # ccw(p2, p3, p4)
    /\ ccw(p1, p2, p3) # ccw(p1, p2, p4)

\* the segments a b and c d cross at one point interior to both
ProperCross(a, b, c, d) ==
    /\ Cross(a, b, c) * Cross(a, b, d) < 0
    /\ Cross(c, d, a) * Cross(c, d, b) < 0

\* the segments a b and c d lie on one line and share more than a point
CollinearOverlap(a, b, c, d) ==
    /\ Cross(a, b, c) = 0
    /\ Cross(a, b, d) = 0
    /\ LET k == IF a[1] # b[1] THEN 1 ELSE 2
       IN  Max2(Min2(a[k], b[k]), Min2(c[k], d[k])) < Min2(Max2(a[k], b[k]), Max2(c[k], d[k]))

\* shapely: line1.intersects(line2) and not line1.touches(line2), which is
\* that the interiors of the two segments meet
ShapelyCross(a, b, c, d) == ProperCross(a, b, c, d) \/ CollinearOverlap(a, b, c, d)

\* the point <<lon, lat>> of a portal, as _check_link_intersection passes it
LonLat(p) == << p.lon, p.lat >>

\* _check_link_intersection; shapely tells whether the import succeeds
check_link_intersection(link1, link2, shapely) ==
    IF \/ PortalEq(link1.portal1, link2.portal1) \/ PortalEq(link1.portal1, link2.portal2)
       \/ PortalEq(link1.portal2, link2.portal1) \/ PortalEq(link1.portal2, link2.portal2)
    THEN FALSE
    ELSE IF shapely
         THEN ShapelyCross(LonLat(link1.portal1), LonLat(link1.portal2),
                           LonLat(link2.portal1), LonLat(link2.portal2))
         ELSE line_segments_intersect(LonLat(link1.portal1), LonLat(link1.portal2),
                                      LonLat(link2.portal1), LonLat(link2.portal2))

\* point_in_triangle with the boundary left out
PointInTriangleStrict(p, p1, p2, p3) ==
    LET sign(a, b, c) == (a.lat - c.lat) * (b.lon - c.lon) - (b.lat - c.lat) * (a.lon - c.lon)
        d1 == sign(p, p1, p2)
        d2 == sign(p, p2, p3)
        d3 == sign(p, p3, p1)
    IN  (d1 < 0 /\ d2 < 0 /\ d3 < 0) \/ (d1 > 0 /\ d2 > 0 /\ d3 > 0)

\* _point_in_triangle
point_in_triangle(p, p1, p2, p3) ==
    LET sign(a, b, c) == (a.lat - c.lat) * (b.lon - c.lon) - (b.lat - c.lat) * (a.lon - c.lon)
        d1 == sign(p, p1, p2)
        d2 == sign(p, p2, p3)
        d3 == sign(p, p3, p1)
        has_neg == (d1 < 0) \/ (d2 < 0) \/ (d3 < 0)
        has_pos == (d1 > 0) \/ (d2 > 0) \/ (d3 > 0)
    IN  ~(has_neg /\ has_pos)

\* ---------------------------------------------------------- triangulation
\* the point <<lat, lon>> of a portal, as _generate_possible_links passes it
LatLon(p) == << p.lat, p.lon >>

\* the determinant of the in-circle test on coordinates relative to d
InCircleDet(ax, ay, bx, by, cx, cy) ==
    ax * (by * (cx * cx + cy * cy) - (bx * bx + by * by) * cy)
      - ay * (bx * (cx * cx + cy * cy) - (bx * bx + by * by) * cx)
      + (ax * ax + ay * ay) * (bx * cy - by * cx)

\* d lies strictly inside the circle through a, b and c
InCircumcircle(a, b, c, d) ==
    InCircleDet(a[1] - d[1], a[2] - d[2], b[1] - d[1], b[2] - d[2], c[1] - d[1], c[2] - d[2])
      * Cross(a, b, c) > 0

\* the triples <<i, j, k>> with i < j < k <= n
Triples(n) ==
    UNION { UNION { { <<i, j, k>> : k \in (j + 1)..n } : j \in (i + 1)..n } : i \in 1..n }

\* the triangles of pts (the points, by position) that a Delaunay
\* triangulation may hold: not flat, no point strictly inside the circumcircle
EmptyCircleTrianglesOf(pts) ==
    { t \in Triples(Len(pts)) :
        /\ Cross(pts[t[1]], pts[t[2]], pts[t[3]]) # 0
        /\ \A m \in DOMAIN pts : ~InCircumcircle(pts[t[1]], pts[t[2]], pts[t[3]], pts[m]) }

Points(portals) == [ i \in DOMAIN portals |-> LatLon(portals[i]) ]

EmptyCircleTriangles(portals) == EmptyCircleTrianglesOf(Points(portals))

TriangleEdges(t) == { <<t[1], t[2]>>, <<t[2], t[3]>>, <<t[1], t[3]>> }

\* two triangles of EmptyCircleTriangles overlap when two of their edges cross
TrianglesOverlap(pts, t, u) ==
    /\ t # u
    /\ \E e \in TriangleEdges(t), f \in TriangleEdges(u) :
          ProperCross(pts[e[1]], pts[e[2]], pts[f[1]], pts[f[2]])

\* the maximal sets of pairwise non-overlapping triangles of cands: those
\* with the triangle t, and those without it that hold a rival of t
RECURSIVE MaximalPackings(_, _)
PackingsAround(pts, cands, t, rivals) ==
    IF rivals = {}
    THEN { S \cup {t} : S \in MaximalPackings(pts, cands \ {t}) }
    ELSE { S \cup {t} : S \in MaximalPackings(pts, cands \ ({t} \cup rivals)) }
         \cup { S \in MaximalPackings(pts, cands \ {t}) : S \cap rivals # {} }

PackingsWith(pts, cands, t) ==
    PackingsAround(pts, cands, t, { u \in cands : TrianglesOverlap(pts, t, u) })

MaximalPackings(pts, cands) ==
    IF cands = {} THEN { {} }
    ELSE PackingsWith(pts, cands, CHOOSE x \in cands : TRUE)

\* all points on one line (or fewer than three points): Qhull finds no
\* initial simplex and scipy raises QhullError
DegenerateOf(pts) ==
    \A i, j, k \in DOMAIN pts : Cross(pts[i], pts[j], pts[k]) = 0

Degenerate(portals) == DegenerateOf(Points(portals))

\* a < b in the lexicographic order of tuples of the same length
RECURSIVE TupleLess(_, _)
TupleLess(a, b) ==
    /\ a # <<>>
    /\ \/ Head(a) < Head(b)
       \/ Head(a) = Head(b) /\ TupleLess(Tail(a), Tail(b))

\* the tuples of S in lexicographic order
RECURSIVE SetToSortedSeq(_)
SortedFrom(S, m) == <<m>> \o SetToSortedSeq(S \ {m})

SetToSortedSeq(S) ==
    IF S = {} THEN <<>>
    ELSE SortedFrom(S, CHOOSE x \in S : \A y \in S : y = x \/ TupleLess(x, y))

\* a row of tri.simplices: the triangle's vertices rotated by q, as ids
SimplexRow(t, q) == [ v \in 1..3 |-> t[((v - 1 + q) % 3) + 1] - 1 ]

\* the rows rotated by q
SimplicesOf(s, q) == [ r \in DOMAIN s |-> SimplexRow(s[((r - 1 + q) % Len(s)) + 1], q) ]

\* tri.simplices for the triangulation T under simplex order q
Simplices(T, q) == SimplicesOf(SetToSortedSeq(T), q)

DelaunayOf(pts) ==
    { Simplices(T, q) : T \in MaximalPackings(pts, EmptyCircleTrianglesOf(pts)),
                        q \in QhullOrders }

\* Delaunay(points).simplices: every value the library may return
Delaunay(portals) == DelaunayOf(Points(portals))

\* ------------------------------------------------------- candidate links
\* an edge of a simplex row, as <<low id, high id>>
SimplexEdge(row, i) ==
    << Min2(row[i + 1], row[((i + 1) % 3) + 1]), Max2(row[i + 1], row[((i + 1) % 3) + 1]) >>

\* the three edges of every simplex, row by row
SimplexEdges(simplices) ==
    [ k \in 1..(3 * Len(simplices)) |-> SimplexEdge(simplices[((k - 1) \div 3) + 1], (k - 1) % 3) ]

\* the positions of s that hold the first copy of an element
FirstCopies(s) ==
    SelectSeq([ k \in DOMAIN s |-> k ], LAMBDA k : \A j \in 1..(k - 1) : s[j] # s[k])

DedupAt(s, keep) == [ n \in DOMAIN keep |-> s[keep[n]] ]

\* a sequence without the later copies of its elements
Dedup(s) == DedupAt(s, FirstCopies(s))

\* Link(p1, p2, self._calculate_distance(p1, p2))
LinkOf(p1, p2) == Link(p1, p2, calculate_distance(p1, p2))

LinksOfEdges(portals, edges) ==
    [ n \in DOMAIN edges |-> LinkOf(portals[edges[n][1] + 1], portals[edges[n][2] + 1]) ]

\* _generate_possible_links, given what Delaunay returned: one Link per
\* id pair, in the order the pairs first appear
generate_possible_links(portals, simplices) ==
    IF Len(portals) < 2 THEN <<>>
    ELSE LinksOfEdges(portals, Dedup(SimplexEdges(simplices)))

\* ----------------------------------------------------- set iteration order
\* the slot of a Link (hashed by its id pair) under a seed
LinkSlot(l, seed) ==
    (LinkIds(l)[1] * (2 * seed + 1) + LinkIds(l)[2] * (seed + 3)) % TableSize

\* the slot of a Portal (hashed by id, lat and lon) under a seed
PortalSlot(p, seed) == (p.id * (2 * seed + 3) + p.lat + p.lon) % TableSize

\* list(s) for a set of Links filled in the order of inserted: by slot,
\* and by insertion among the Links of one slot
SetOrder(inserted, seed) ==
    StableSort(inserted,
               [ i \in DOMAIN inserted |-> [ j \in DOMAIN inserted |->
                   LinkSlot(inserted[i], seed) < LinkSlot(inserted[j], seed) ] ])

\* the iteration order of a set of Portals: by slot, then by id
PortalKey(q, seed) == PortalSlot(q, seed) * 1024 + q.id

RECURSIVE PortalSetOrder(_, _)
PortalOrderFrom(S, seed, m) == <<m>> \o PortalSetOrder(S \ {m}, seed)

PortalSetOrder(S, seed) ==
    IF S = {} THEN <<>>
    ELSE PortalOrderFrom(S, seed,
            CHOOSE x \in S : \A y \in S : PortalKey(x, seed) <= PortalKey(y, seed))

\* ------------------------------------------------------------ field deriver
\* portal_links[p]: the links that touch p, in list order
PortalLinks(links, p) ==
    SelectSeq(links, LAMBDA l : l.portal1 = p \/ l.portal2 = p)

\* {l.portal2 if l.portal1 == p else l.portal1 for l in portal_links[p]}
NeighborsIn(pl, p) ==
    { IF PortalEq(pl[i].portal1, p) THEN pl[i].portal2 ELSE pl[i].portal1 : i \in DOMAIN pl }

NeighborSet(links, p) == NeighborsIn(PortalLinks(links, p), p)

Touches(l, p3) == PortalEq(l.portal1, p3) \/ PortalEq(l.portal2, p3)

\* FirstLinkTo without its condition: the first link of portal_links[p]
FirstLinkAny(links, p, p3) == PortalLinks(links, p)[1]

FirstTouching(pl, p3) ==
    pl[CHOOSE i \in DOMAIN pl : Touches(pl[i], p3) /\ \A j \in 1..(i - 1) : ~Touches(pl[j], p3)]

\* next(l for l in portal_links[p] if l.portal1 == p3 or l.portal2 == p3)
FirstLinkTo(links, p, p3) == FirstTouching(PortalLinks(links, p), p3)

\* FieldIds without sorted(): the ids in the order the portals were met
FieldIdsUnsorted(p1, p2, p3) == << p1.id, p2.id, p3.id >>

\* tuple(sorted([p1.id, p2.id, p3.id])), as the set of the three ids
FieldIds(p1, p2, p3) == { p1.id, p2.id, p3.id }

\* Field(p1, p2, p3, (link1, link2, link3)) for the link p1 p2 and p3
FieldOn(links, link, p3) ==
    Field(link.portal1, link.portal2, p3,
          << link, FirstLinkTo(links, link.portal1, p3), FirstLinkTo(links, link.portal2, p3) >>)

\* the inner loop of _generate_fields over the common neighbours of a link;
\* acc holds the fields found and the id triples seen
RECURSIVE FieldsOfLink(_, _, _, _)
FieldsOfLink(links, link, commons, acc) ==
    IF commons = <<>> THEN acc
    ELSE IF FieldIds(link.portal1, link.portal2, Head(commons)) \in acc.field_set
    THEN FieldsOfLink(links, link, Tail(commons), acc)
    ELSE FieldsOfLink(links, link, Tail(commons),
            [ fields |-> Append(acc.fields, FieldOn(links, link, Head(commons))),
              field_set |-> acc.field_set \cup { FieldIds(link.portal1, link.portal2, Head(commons)) } ])

\* the common neighbours of the two ends of a link
CommonNeighbors(links, link) ==
    NeighborSet(links, link.portal1) \cap NeighborSet(links, link.portal2)

\* the outer loop of _generate_fields, from link k on
RECURSIVE FieldsFrom(_, _, _, _)
FieldsFrom(links, k, seed, acc) ==
    IF k > Len(links) THEN acc.fields
    ELSE FieldsFrom(links, k + 1, seed,
            FieldsOfLink(links, links[k], PortalSetOrder(CommonNeighbors(links, links[k]), seed), acc))

\* _generate_fields
generate_fields(links, seed) ==
    FieldsFrom(links, 1, seed, [ fields |-> <<>>, field_set |-> {} ])

\* _check_field_validity
check_field_validity(field, selected_links) ==
    \A i \in 1..3 : LinkIn(field.links[i], selected_links)

\* _count_points_in_field
count_points_in_field(field, portals) ==
    Cardinality({ q \in portals :
        /\ ~(PortalEq(q, field.portal1) \/ PortalEq(q, field.portal2) \/ PortalEq(q, field.portal3))
        /\ point_in_triangle(q, field.portal1, field.portal2, field.portal3) })

\* ------------------------------------------------------------- path builder
FarEnds(pl, p) == [ i \in DOMAIN pl |-> IF pl[i].portal1 = p THEN pl[i].portal2 ELSE pl[i].portal1 ]

\* graph[p]: the far ends of the links that touch p, in list order
Adjacency(links, p) == FarEnds(PortalLinks(links, p), p)

\* graph.keys(): the portals of the links, in the order they first appear
GraphKeys(links) ==
    Dedup([ k \in 1..(2 * Len(links)) |->
              IF k % 2 = 1 THEN links[(k + 1) \div 2].portal1
              ELSE links[k \div 2].portal2 ])

Joins(l, current, neighbor) ==
    \/ PortalEq(l.portal1, current) /\ PortalEq(l.portal2, neighbor)
    \/ PortalEq(l.portal2, current) /\ PortalEq(l.portal1, neighbor)

\* next(l for l in links if l joins current and neighbor)
LinkBetween(links, current, neighbor) ==
    links[CHOOSE i \in DOMAIN links :
            /\ Joins(links[i], current, neighbor)
            /\ \A j \in 1..(i - 1) : ~Joins(links[j], current, neighbor)]

\* the first of keys with the least degree
FirstOfLeastDegree(keys, deg) ==
    keys[CHOOSE i \in DOMAIN keys :
           /\ \A j \in DOMAIN keys : deg[i] <= deg[j]
           /\ \A j \in 1..(i - 1) : deg[j] > deg[i]]

StartAmong(links, keys) ==
    FirstOfLeastDegree(keys, [ i \in DOMAIN keys |-> Len(Adjacency(links, keys[i])) ])

\* StartPortal without the degrees: the first portal of the graph
StartPortalFirst(links) == GraphKeys(links)[1]

\* min(graph.keys(), key=degree): the first portal of the least degree
StartPortal(links) == StartAmong(links, GraphKeys(links))

\* the neighbour the for loop settles on: the nearest among open (the
\* positions of adj whose link is not visited), the first of the nearest
BestIndex(open, dist) ==
    CHOOSE i \in open :
        /\ \A j \in open : dist[i] <= dist[j]
        /\ \A j \in open : j < i => dist[j] > dist[i]

\* the while loop of _generate_path
RECURSIVE Walk(_, _, _, _)
WalkTo(links, visited_links, path, current, best_next) ==
    Walk(links, visited_links \cup { LinkBetween(links, current, best_next) },
         Append(path, best_next), best_next)

WalkAmong(links, visited_links, path, current, adj, open) ==
    IF open = {} THEN path
    ELSE WalkTo(links, visited_links, path, current,
                adj[BestIndex(open, [ i \in DOMAIN adj |-> calculate_distance(current, adj[i]) ])])

WalkFrom(links, visited_links, path, current, adj) ==
    WalkAmong(links, visited_links, path, current, adj,
              { i \in DOMAIN adj : ~LinkIn(LinkBetween(links, current, adj[i]), visited_links) })

Walk(links, visited_links, path, current) ==
    IF ~(Cardinality(visited_links) < Len(links)) THEN path
    ELSE WalkFrom(links, visited_links, path, current, Adjacency(links, current))

PathFrom(links, start) == Walk(links, {}, <<start>>, start)

\* _generate_path
generate_path(links) ==
    IF links = <<>> THEN <<>> ELSE PathFrom(links, StartPortal(links))

\* the positions of graph[current] whose link is not in visited_links
OpenAt(links, visited_links, current, adj) ==
    { i \in DOMAIN adj : ~LinkIn(LinkBetween(links, current, adj[i]), visited_links) }

\* BreaksAt never true
BreaksNever(links, visited_links, current, adj) == FALSE

\* `if best_next is None: break`: neither for loop found a neighbour in
\* adj, which is graph[current]
BreaksAt(links, visited_links, current, adj) ==
    OpenAt(links, visited_links, current, adj) = {}

\* best_next: the nearest neighbour over an unvisited link
BestNextAmong(current, adj, open) ==
    adj[BestIndex(open, [ i \in DOMAIN adj |-> calculate_distance(current, adj[i]) ])]

BestNext(links, visited_links, current, adj) ==
    BestNextAmong(current, adj, OpenAt(links, visited_links, current, adj))

\* graph: for every portal of the links its neighbours, in list order
Graph(links) == [ p \in Range(GraphKeys(links)) |-> Adjacency(links, p) ]

\* _calculate_path_distance
calculate_path_distance(path) ==
    IF Len(path) < 2 THEN 0
    ELSE SumSeq([ i \in 1..(Len(path) - 1) |-> calculate_distance(path[i], path[i + 1]) ])

\* ------------------------------------------------------ greedy link selector
\* l1 sorts before l2: a larger ap / max(distance, 1)
DensityBefore(l1, l2) ==
    LinkAp(l1) * Max2(l2.distance, 1) > LinkAp(l2) * Max2(l1.distance, 1)

\* SortByDensity as an ascending sort turned round: links of one density
\* come out in the reverse of their list order
SortByDensityTurned(possible_links) ==
    ByRank(possible_links,
           [ i \in DOMAIN possible_links |-> Len(possible_links) + 1 -
               RankOf([ a \in DOMAIN possible_links |-> [ b \in DOMAIN possible_links |->
                   DensityBefore(possible_links[b], possible_links[a]) ] ])[i] ])

\* possible_links.sort(key=..., reverse=True)
SortByDensity(possible_links) ==
    StableSort(possible_links,
               [ i \in DOMAIN possible_links |-> [ j \in DOMAIN possible_links |->
                   DensityBefore(possible_links[i], possible_links[j]) ] ])

\* CanAdd with the crossing check left out
CanAddUnchecked(link, selected, shapely) == TRUE

\* CanAdd looking at the first selected link alone
CanAddAgainstFirst(link, selected, shapely) ==
    selected = <<>> \/ ~check_link_intersection(link, selected[1], shapely)

\* the inner loop: no selected link crosses link
CanAdd(link, selected, shapely) ==
    \A i \in DOMAIN selected : ~check_link_intersection(link, selected[i], shapely)

\* selected_links.add(link) when can_add
AddIfCan(link, selected, shapely) ==
    IF CanAdd(link, selected, shapely) /\ ~LinkIn(link, Range(selected))
    THEN Append(selected, link) ELSE selected

\* the selection loop from candidate k on; selected holds the accepted
\* links in the order they were added to the set
RECURSIVE SelectLinks(_, _, _, _)
SelectLinks(sorted, k, selected, shapely) ==
    IF k > Len(sorted) THEN selected
    ELSE SelectLinks(sorted, k + 1, AddIfCan(sorted[k], selected, shapely), shapely)

\* the portals of the selected links
UsedPortals(selected) ==
    { selected[i].portal1 : i \in DOMAIN selected } \cup { selected[i].portal2 : i \in DOMAIN selected }

\* FilterFields letting one portal more pass
FilterFieldsOneMore(all_fields, used_portals) ==
    SelectSeq(all_fields, LAMBDA f : count_points_in_field(f, used_portals) <= MaxPointsInField + 1)

\* the fields that hold at most MaxPointsInField used portals
FilterFields(all_fields, used_portals) ==
    SelectSeq(all_fields, LAMBDA f : count_points_in_field(f, used_portals) <= MaxPointsInField)

\* TotalAp without the fields' share
TotalApLinksOnly(links, fields) == SumSeq([ i \in DOMAIN links |-> LinkAp(links[i]) ])

\* total_ap of _greedy_optimize
TotalAp(links, fields) ==
    SumSeq([ i \in DOMAIN links |-> LinkAp(links[i]) ])
      + SumSeq([ i \in DOMAIN fields |-> FieldAp(fields[i]) ])

\* Solution(links=list(selected_links), fields=..., total_ap=..., distance=..., path=...)
SolutionOf(links, selected_fields, path) ==
    [ links |-> links,
      fields |-> selected_fields,
      total_ap |-> TotalAp(links, selected_fields),
      distance |-> calculate_path_distance(path),
      path |-> path ]

\* _greedy_optimize from the fields on: links is list(selected_links)
GreedyWithLinks(links, used_portals, seed) ==
    SolutionOf(links, FilterFields(generate_fields(links, seed), used_portals), generate_path(links))

GreedyWithSelected(selected, seed) ==
    GreedyWithLinks(SetOrder(selected, seed), UsedPortals(selected), seed)

\* _greedy_optimize
greedy_optimize(possible_links, shapely, seed) ==
    GreedyWithSelected(SelectLinks(SortByDensity(possible_links), 1, <<>>, shapely), seed)

\* ------------------------------------------------------------------- plan
\* the portals plan(portals) puts in place of the session's: ids by position
PortalsOf(input) == [ i \in DOMAIN input |-> Portal(i - 1, NoName, input[i][1], input[i][2]) ]

NoFault == "none"

\* the threshold of plan() one too low
BelowTwo(portals) == Len(portals) < 2

\* the threshold of plan() one too high
AtMostThreshold(portals) == Len(portals) <= 3

\* `if len(self.portals) < 3` of plan()
BelowThreshold(portals) == Len(portals) < 3

\* plan() once the candidate list is built
PlanWith(possible_links, shapely, seed) ==
    [ fault |-> NoFault,
      possible_links |-> possible_links,
      solution |-> IF possible_links = <<>> THEN EmptySolution
                   ELSE greedy_optimize(possible_links, shapely, seed) ]

\* what plan() can do on a portal list: raise (fault) or return solution;
\* possible_links is the candidate list it built on the way
plan(portals, shapely) ==
    IF BelowThreshold(portals)
    THEN { [ fault |-> NoFault, possible_links |-> <<>>, solution |-> EmptySolution ] }
    ELSE IF Degenerate(portals)
    THEN { [ fault |-> "QhullError", possible_links |-> <<>>, solution |-> EmptySolution ] }
    ELSE { PlanWith(generate_possible_links(portals, simplices), shapely, seed)
           : simplices \in Delaunay(portals), seed \in Seeds }

\* -------------------------------------------------------- multi-agent plan
\* Python's // and % round toward minus infinity (n # 0)
PyFloorDiv(a, n) ==
    IF n > 0 THEN (IF a >= 0 THEN a \div n ELSE 0 - (((0 - a) + n - 1) \div n))
    ELSE (IF a <= 0 THEN (0 - a) \div (0 - n) ELSE 0 - ((a + (0 - n) - 1) \div (0 - n)))

PyMod(a, n) == a - n * PyFloorDiv(a, n)

\* links[start_idx : start_idx + num_links], start_idx counted from 0
Slice(links, start_idx, num_links) ==
    [ k \in 1..(Min2(start_idx + num_links, Len(links)) - Min2(start_idx, Len(links))) |->
        links[Min2(start_idx, Len(links)) + k] ]

\* AgentFields with any() in place of all()
AgentFieldsAny(fields, agent_links) ==
    SelectSeq(fields, LAMBDA f : \E i \in 1..3 : LinkIn(f.links[i], Range(agent_links)))

\* the fields of the solution whose three links all lie in agent_links
AgentFields(fields, agent_links) ==
    SelectSeq(fields, LAMBDA f : \A i \in 1..3 : LinkIn(f.links[i], Range(agent_links)))

\* agent_ap
AgentAp(agent_links, agent_fields) ==
    SumSeq([ i \in DOMAIN agent_links |-> LinkAp(agent_links[i]) ])
      + SumSeq([ i \in DOMAIN agent_fields |-> FieldAp(agent_fields[i]) ])

\* AgentPath walking the whole solution's links
AgentPathOfAll(solution, agent_links) == generate_path(solution.links)

\* the path of one agent
AgentPath(solution, agent_links) == generate_path(agent_links)

\* AgentPlan(links=agent_links, fields=agent_fields, ap=..., distance=..., path=agent_path)
AgentPlanOf(agent_links, agent_fields, agent_path) ==
    [ links |-> agent_links,
      fields |-> agent_fields,
      ap |-> AgentAp(agent_links, agent_fields),
      distance |-> calculate_path_distance(agent_path),
      path |-> agent_path ]

\* one pass of the loop over the agents
AgentPlan(solution, agent_links) ==
    AgentPlanOf(agent_links, AgentFields(solution.fields, agent_links),
                AgentPath(solution, agent_links))

\* NumLinks with the comparison off by one
NumLinksOffByOne(links_per_agent, remainder, i) == links_per_agent + (IF i <= remainder THEN 1 ELSE 0)

\* num_links of agent i (from 0)
NumLinks(links_per_agent, remainder, i) == links_per_agent + (IF i < remainder THEN 1 ELSE 0)

\* the loop `for i in range(num_agents)`, from agent i on
RECURSIVE AgentPlans(_, _, _, _, _, _)
AgentPlansWith(solution, num_agents, links_per_agent, remainder, i, start_idx, num_links) ==
    <<AgentPlan(solution, Slice(solution.links, start_idx, num_links))>>
      \o AgentPlans(solution, num_agents, links_per_agent, remainder, i + 1, start_idx + num_links)

AgentPlans(solution, num_agents, links_per_agent, remainder, i, start_idx) ==
    IF i >= num_agents THEN <<>>
    ELSE AgentPlansWith(solution, num_agents, links_per_agent, remainder, i, start_idx,
                        NumLinks(links_per_agent, remainder, i))

\* MultiAgentSolution.total_ap
MultiTotalAp(solution) == solution.total_ap

\* NoLinks never taken
NoLinksUnchecked(solution) == FALSE

\* `if not solution.links`
NoLinks(solution) == solution.links = <<>>

\* multi_agent_plan leaving out the agents that get no link
MultiAgentPlanNoIdle(solution, num_agents) ==
    IF NoLinks(solution)
    THEN [ fault |-> NoFault, agent_plans |-> <<>>, total_ap |-> 0 ]
    ELSE IF num_agents = 0
    THEN [ fault |-> "ZeroDivisionError", agent_plans |-> <<>>, total_ap |-> 0 ]
    ELSE [ fault |-> NoFault,
           agent_plans |-> SelectSeq(AgentPlans(solution, num_agents,
                                                PyFloorDiv(Len(solution.links), num_agents),
                                                PyMod(Len(solution.links), num_agents), 0, 0),
                                     LAMBDA pl : pl.links # <<>>),
           total_ap |-> MultiTotalAp(solution) ]

\* multi_agent_plan after plan() returned solution
multi_agent_plan(solution, num_agents) ==
    IF NoLinks(solution)
    THEN [ fault |-> NoFault, agent_plans |-> <<>>, total_ap |-> 0 ]
    ELSE IF num_agents = 0
    THEN [ fault |-> "ZeroDivisionError", agent_plans |-> <<>>, total_ap |-> 0 ]
    ELSE [ fault |-> NoFault,
           agent_plans |-> AgentPlans(solution, num_agents,
                                      PyFloorDiv(Len(solution.links), num_agents),
                                      PyMod(Len(solution.links), num_agents), 0, 0),
           total_ap |-> MultiTotalAp(solution) ]

\* ---------------------------------------------------------- portal files
\* A text is the sequence of its characters, a file the sequence of its
\* lines (without their line ends).  A coordinate is a whole number of grid
\* steps and a step is a tenth of a degree: the text "0.4" is the coordinate
\* 4.  The texts of the model carry at most one decimal digit that is not 0.
Digits == << "0", "1", "2", "3", "4", "5", "6", "7", "8", "9" >>

IsDigit(c) == \E i \in DOMAIN Digits : Digits[i] = c

DigitVal(c) == (CHOOSE i \in DOMAIN Digits : Digits[i] = c) - 1

IsSpace(c) == c = " "

RECURSIVE LStrip(_)
LStrip(s) == IF s # <<>> /\ IsSpace(Head(s)) THEN LStrip(Tail(s)) ELSE s

RECURSIVE RStrip(_)
RStrip(s) ==
    IF s # <<>> /\ IsSpace(s[Len(s)]) THEN RStrip(SubSeq(s, 1, Len(s) - 1)) ELSE s

\* str.strip()
Strip(s) == RStrip(LStrip(s))

\* str.startswith(c)
StartsWith(s, c) == s # <<>> /\ Head(s) = c

\* str.split(sep): the texts between the separators, one at least
RECURSIVE Split(_, _)
SplitAt(s, sep, i) == << SubSeq(s, 1, i - 1) >> \o Split(SubSeq(s, i + 1, Len(s)), sep)

Split(s, sep) ==
    IF \A i \in DOMAIN s : s[i] # sep THEN << s >>
    ELSE SplitAt(s, sep, CHOOSE i \in DOMAIN s : s[i] = sep /\ \A j \in 1..(i - 1) : s[j] # sep)

\* the text of a number without its sign
Unsigned(t) == IF t # <<>> /\ Head(t) \in { "-", "+" } THEN Tail(t) ELSE t

\* digits around at most one point, one digit at least
DigitsAndPoint(parts) ==
    /\ Len(parts) <= 2
    /\ \A i \in DOMAIN parts : \A k \in DOMAIN parts[i] : IsDigit(parts[i][k])
    /\ \E i \in DOMAIN parts : parts[i] # <<>>

\* float(tok) does not raise ValueError; the texts of the model hold no
\* exponent, underscore, "inf" or "nan"
IsFloat(tok) == DigitsAndPoint(Split(Unsigned(Strip(tok)), "."))

\* the value of a text of digits
RECURSIVE IntVal(_)
IntVal(ds) ==
    IF ds = <<>> THEN 0 ELSE IntVal(SubSeq(ds, 1, Len(ds) - 1)) * 10 + DigitVal(ds[Len(ds)])

\* the value, in tenths, of the digits around the point
Tenths(parts) ==
    IntVal(parts[1]) * 10
      + (IF Len(parts) = 2 /\ parts[2] # <<>> THEN DigitVal(parts[2][1]) ELSE 0)

SignedTenths(t) ==
    (IF t # <<>> /\ Head(t) = "-" THEN 0 - 1 ELSE 1) * Tenths(Split(Unsigned(t), "."))

\* float(tok), for a tok that IsFloat
Float(tok) == SignedTenths(Strip(tok))

\* the digits of a natural number
RECURSIVE IntDigits(_)
IntDigits(n) ==
    IF n < 10 THEN << Digits[n + 1] >>
    ELSE IntDigits(n \div 10) \o << Digits[(n % 10) + 1] >>

FormatTenths(neg, n) ==
    (IF neg THEN << "-" >> ELSE <<>>) \o IntDigits(n \div 10) \o << "." >> \o << Digits[(n % 10) + 1] >>

\* f"{x}" for a float x
FormatFloat(v) == IF v < 0 THEN FormatTenths(TRUE, 0 - v) ELSE FormatTenths(FALSE, v)

\* add_portal with ids counted from 1
add_portal_from_one(ps, lat, lon, name) == Append(ps, Portal(Len(ps) + 1, name, lat, lon))

\* add_portal on the portal list ps
add_portal(ps, lat, lon, name) == Append(ps, Portal(Len(ps), name, lat, lon))

\* the try block of load_portals_from_file on the fields of a line
LoadParts(ps, parts) ==
    IF Len(parts) = 2
    THEN IF IsFloat(parts[1]) /\ IsFloat(parts[2])
         THEN add_portal(ps, Float(parts[1]), Float(parts[2]), NoName)
         ELSE ps
    ELSE IF IsFloat(parts[2]) /\ IsFloat(parts[3])
         THEN add_portal(ps, Float(parts[2]), Float(parts[3]), parts[1])
         ELSE ps

\* the loop body on a stripped line
LoadStripped(ps, line) ==
    IF line = <<>> \/ StartsWith(line, "#") THEN ps
    ELSE IF Len(Split(line, ",")) >= 2 THEN LoadParts(ps, Split(line, ","))
    ELSE ps

\* the loop of load_portals_from_file from line k on
RECURSIVE LoadLines(_, _, _)
LoadLines(ps, file, k) ==
    IF k > Len(file) THEN ps
    ELSE LoadLines(LoadStripped(ps, Strip(file[k])), file, k + 1)

\* load_portals_from_file: the portal list it leaves
load_portals_from_file(file) == LoadLines(<<>>, file, 1)

\* the three lines save_to_file writes first: two comments and a blank
FileHeader == << << "#", " ", "P" >>, << "#", " ", "n", ",", "l" >>, <<>> >>

\* f"{name},{lat},{lon}" for an entry <<name, lat, lon>> of the selector
SavedLine(entry) ==
    entry[1] \o << "," >> \o FormatFloat(entry[2]) \o << "," >> \o FormatFloat(entry[3])

\* MapPortalSelector.save_to_file(filename, 'txt'): the lines of the file
save_to_file(entries) == FileHeader \o [ i \in DOMAIN entries |-> SavedLine(entries[i]) ]

\* ------------------------------------------------------------ the session
VARIABLES
    portals,   \* IngressPlanner.portals
    shapely,   \* whether `from shapely.geometry import ...` succeeds
    ret        \* the last call and what it returned or raised

vars == << portals, shapely, ret >>

\* portal lists passed to plan(portals) and multi_agent_plan(portals, n);
\* the empty list stands for both None and []: `if portals:` skips both
PlanInputs ==
    { <<>>,
      << <<0, 0>>, <<0, 4>> >>,
      << <<0, 0>>, <<0, 4>>, <<4, 0>> >> }

\* a call's record: the operation, the fault it raised, the candidate
\* list and the Solution it worked with, and for multi_agent_plan the
\* MultiAgentSolution (agent_plans, total_ap) and the agent count
Return(op, fault, possible_links, solution, agent_plans, total_ap, num_agents) ==
    [ op |-> op, fault |-> fault, possible_links |-> possible_links, solution |-> solution,
      agent_plans |-> agent_plans, total_ap |-> total_ap, num_agents |-> num_agents ]

NoReturn == Return("none", NoFault, <<>>, EmptySolution, <<>>, 0, 0)

\* the position pairs <<i, j>>, i < j <= n, in order
PairsUpTo(n) == SetToSortedSeq({ pr \in (1..n) \X (1..n) : pr[1] < pr[2] })

\* the link of a position pair, its ends swapped when q is odd
PairLink(ps, pr, q) ==
    IF q % 2 = 0 THEN LinkOf(ps[pr[1]], ps[pr[2]]) ELSE LinkOf(ps[pr[2]], ps[pr[1]])

LinksOfPairs(ps, pairs, q) ==
    [ r \in DOMAIN pairs |-> PairLink(ps, pairs[((r - 1 + q) % Len(pairs)) + 1], q) ]

\* every link between two portals of the session, as a candidate list for
\* a direct call of _greedy_optimize: the pairs in order rotated by q, and
\* the ends of each link swapped when q is odd
AllPairs(ps, q) == LinksOfPairs(ps, PairsUpTo(Len(ps)), q)

Init ==
    /\ portals = <<>>
    /\ shapely \in BOOLEAN
    /\ ret = NoReturn

\* add_portal(lat, lon): at a site no portal of the session is at
AddPortalAt(site) ==
    /\ ret.op = "none"
    /\ \A i \in DOMAIN portals : LatLon(portals[i]) # site
    /\ portals' = add_portal(portals, site[1], site[2], NoName)
    /\ UNCHANGED << shapely, ret >>

\* add_portal in a session of fewer than MaxPortals portals
AddPortal(site) == Len(portals) < MaxPortals /\ AddPortalAt(site)

\* plan(input)
Plan(input) ==
    /\ ret.op = "none"
    /\ portals' = IF input # <<>> THEN PortalsOf(input) ELSE portals
    /\ \E r \in plan(portals', shapely) :
          ret' = Return("plan", r.fault, r.possible_links, r.solution, <<>>, 0, 0)
    /\ UNCHANGED shapely

\* what a direct call of _greedy_optimize leaves behind
GreedyReturn(possible_links, seed) ==
    Return("greedy_optimize", NoFault, possible_links,
           greedy_optimize(possible_links, shapely, seed), <<>>, 0, 0)

\* _greedy_optimize(possible_links) called on every link between the
\* session's portals
GreedyOptimize ==
    /\ ret.op = "none"
    /\ Len(portals) >= 2
    /\ \E q \in QhullOrders, seed \in Seeds : ret' = GreedyReturn(AllPairs(portals, q), seed)
    /\ UNCHANGED << portals, shapely >>

\* what multi_agent_plan leaves behind once plan() returned r and the rest
\* of it returned or raised m
MultiReturn(r, m, num_agents) ==
    Return("multi_agent_plan", m.fault, r.possible_links, r.solution,
           m.agent_plans, m.total_ap, num_agents)

\* multi_agent_plan(input, num_agents)
MultiAgentPlan(input) ==
    /\ ret.op = "none"
    /\ portals' = IF input # <<>> THEN PortalsOf(input) ELSE portals
    /\ \E r \in plan(portals', shapely), num_agents \in AgentCounts :
          IF r.fault # NoFault
          THEN ret' = Return("multi_agent_plan", r.fault, r.possible_links, r.solution,
                             <<>>, 0, num_agents)
          ELSE ret' = MultiReturn(r, multi_agent_plan(r.solution, num_agents), num_agents)
    /\ UNCHANGED shapely

\* the caller is done with the returned value
Discard ==
    /\ ret.op # "none"
    /\ ret' = NoReturn
    /\ UNCHANGED << portals, shapely >>

Next ==
    \/ \E site \in Sites : AddPortal(site)
    \/ \E input \in PlanInputs : Plan(input)
    \/ GreedyOptimize
    \/ \E input \in PlanInputs : MultiAgentPlan(input)
    \/ Discard

Spec == Init /\ [][Next]_vars

\* ------------------------------------------- sessions with a crowded field
\* three corners and six portals strictly inside their triangle, no four of
\* them on an empty circle; CapSites are three more places inside it
CapBase ==
    << <<0, 0>>, <<12, 0>>, <<0, 12>>, <<2, 6>>, <<5, 4>>, <<5, 1>>, <<1, 9>>, <<3, 5>>, <<5, 5>> >>

CapSites == { <<4, 4>>, <<6, 1>>, <<9, 2>> }

InitCap ==
    /\ portals = PortalsOf(CapBase)
    /\ shapely \in BOOLEAN
    /\ ret = NoReturn

NextCap ==
    \/ \E site \in CapSites : AddPortalAt(site)
    \/ Plan(<<>>)
    \/ Discard

SpecCap == InitCap /\ [][NextCap]_vars

\* ------------------------------------------------ the data classes alone
\* the bracket bounds of Link.ap, in meters
BracketBounds == { 1000, 5000, 10000, 25000, 50000, 100000, 150000, 200000 }

\* the distances Link.ap is tried on: 0, and ApSlack around every bound
ApDistances == {0} \cup { b + k : b \in BracketBounds, k \in (0 - ApSlack)..ApSlack }

\* portals that differ in id, in name or in place
TestPortals ==
    { Portal(id, name, lat, 0) : id \in 0..2, name \in { NoName, << "a" >> }, lat \in 0..1 }

\* the ends of the links compared
LinkEnds == [ i \in 1..3 |-> Portal(i - 1, NoName, i - 1, 0) ]

TestLinks == { Link(LinkEnds[i], LinkEnds[j], d) : i \in 1..3, j \in 1..3, d \in { 1000, 5000 } }

\* link.ap read on two links of lengths d1 and d2
LinkApOf(d1, d2) ==
    /\ ret.op = "none"
    /\ ret' = [ op |-> "Link.ap", fault |-> NoFault,
                d1 |-> d1, ap1 |-> LinkAp(Link(LinkEnds[1], LinkEnds[2], d1)),
                d2 |-> d2, ap2 |-> LinkAp(Link(LinkEnds[1], LinkEnds[2], d2)) ]
    /\ UNCHANGED << portals, shapely >>

\* l1 == l2, hash(l1) == hash(l2) and len({l1, l2})
LinkCompare(l1, l2) ==
    /\ ret.op = "none"
    /\ ret' = [ op |-> "Link.__eq__", fault |-> NoFault, link1 |-> l1, link2 |-> l2,
                eq |-> LinkEq(l1, l2),
                same_hash |-> (LinkHash(l1) = LinkHash(l2)),
                set_size |-> Len(SetAdd(SetAdd(<<>>, l1), l2)) ]
    /\ UNCHANGED << portals, shapely >>

\* p == q
PortalCompare(p, q) ==
    /\ ret.op = "none"
    /\ ret' = [ op |-> "Portal.__eq__", fault |-> NoFault, left |-> p, right |-> q,
                eq |-> PortalEq(p, q) ]
    /\ UNCHANGED << portals, shapely >>

NextData ==
    \/ \E d1 \in ApDistances, d2 \in ApDistances : LinkApOf(d1, d2)
    \/ \E l1 \in TestLinks, l2 \in TestLinks : LinkCompare(l1, l2)
    \/ \E p \in TestPortals, q \in TestPortals : PortalCompare(p, q)
    \/ Discard

SpecData == Init /\ [][NextData]_vars

\* --------------------------------------------- sessions filled from files
\* lines of portal files: "1.0,2.5", "a,1,2", "a,1,2,3", "1", " ",
\* " #a,1,2", "a,b,2" and " a , -0.5,+1 "
FileLines ==
    { << "1", ".", "0", ",", "2", ".", "5" >>,
      << "a", ",", "1", ",", "2" >>,
      << "a", ",", "1", ",", "2", ",", "3" >>,
      << "1" >>,
      << " " >>,
      << " ", "#", "a", ",", "1", ",", "2" >>,
      << "a", ",", "b", ",", "2" >>,
      << " ", "a", " ", ",", " ", "-", "0", ".", "5", ",", "+", "1", " " >> }

\* the sequences of at most n elements of S
RECURSIVE SeqsUpTo(_, _)
SeqsUpTo(S, n) ==
    IF n = 0 THEN { <<>> }
    ELSE SeqsUpTo(S, n - 1) \cup { Append(q, x) : q \in SeqsUpTo(S, n - 1), x \in S }

Files == SeqsUpTo(FileLines, MaxLines)

\* entries <<name, lat, lon>> of a selector: the names "a", "a,b", "#a",
\* " a" and "a "
SelectorEntries ==
    { << << "a" >>, 0 - 5, 120 >>,
      << << "a", ",", "b" >>, 0, 4 >>,
      << << "#", "a" >>, 10, 0 >>,
      << << " ", "a" >>, 4, 0 >>,
      << << "a", " " >>, 4, 4 >> }

SelectorLists == SeqsUpTo(SelectorEntries, MaxSaved)

\* the place add_portal is called with after a load
FileSites == { <<0, 4>> }

\* what load_portals_from_file leaves behind: the file it read, and the
\* selector list when save_to_file wrote that file
LoadReturn(file, from_save, saved) ==
    [ op |-> "load_portals_from_file", fault |-> NoFault, file |-> file,
      from_save |-> from_save, saved |-> saved ]

\* load_portals_from_file(filename) on a file with the lines of file
LoadPortalsFromFile(file) ==
    /\ ret.op = "none"
    /\ portals' = load_portals_from_file(file)
    /\ ret' = LoadReturn(file, FALSE, <<>>)
    /\ UNCHANGED shapely

\* MapPortalSelector.save_to_file(filename): ret holds the file written
SaveToFile(entries) ==
    /\ ret.op = "none"
    /\ ret' = [ op |-> "save_to_file", fault |-> NoFault, file |-> save_to_file(entries),
                saved |-> entries ]
    /\ UNCHANGED << portals, shapely >>

\* load_portals_from_file(filename) on the file save_to_file just wrote
LoadSaved ==
    /\ ret.op = "save_to_file"
    /\ portals' = load_portals_from_file(ret.file)
    /\ ret' = LoadReturn(ret.file, TRUE, ret.saved)
    /\ UNCHANGED shapely

NextFile ==
    \/ \E site \in FileSites : AddPortal(site)
    \/ \E file \in Files : LoadPortalsFromFile(file)
    \/ \E input \in PlanInputs \ { <<>> } : Plan(input)
    \/ \E entries \in SelectorLists : SaveToFile(entries)
    \/ LoadSaved
    \/ Discard

SpecFile == Init /\ [][NextFile]_vars

\* ------------------------------------------- plans for more agents than links
\* the places of the portals of a crowded plan
CrowdSites == { <<0, 0>>, <<4, 0>>, <<0, 4>>, <<1, 1>> }

\* the agent counts of a crowded plan
CrowdCounts == 1..(MaxAgents + MaxIdle)

\* multi_agent_plan(None, num_agents)
MultiAgentPlanFor(num_agents) ==
    /\ ret.op = "none"
    /\ \E r \in plan(portals, shapely) :
          IF r.fault # NoFault
          THEN ret' = Return("multi_agent_plan", r.fault, r.possible_links, r.solution,
                             <<>>, 0, num_agents)
          ELSE ret' = MultiReturn(r, multi_agent_plan(r.solution, num_agents), num_agents)
    /\ UNCHANGED << portals, shapely >>

NextCrowd ==
    \/ \E site \in CrowdSites : AddPortal(site)
    \/ \E num_agents \in CrowdCounts : MultiAgentPlanFor(num_agents)
    \/ Discard

SpecCrowd == Init /\ [][NextCrowd]_vars

\* ---------------------------------------------------- the parts alone
\* hash(p), hash(q), p == q and len({p, q})
PortalHashOf(p, q) ==
    /\ ret.op = "none"
    /\ ret' = [ op |-> "Portal.__hash__", fault |-> NoFault, left |-> p, right |-> q,
                eq |-> PortalEq(p, q),
                same_hash |-> (PortalHash(p) = PortalHash(q)),
                set_size |-> Len(PortalSetAdd(PortalSetAdd(<<>>, p), q)) ]
    /\ UNCHANGED << portals, shapely >>

\* four portals, no three of them on one line, at pairwise different distances
\* but for one pair of equal sides
GraphPortals == PortalsOf(<< <<0, 0>>, <<3, 0>>, <<0, 4>>, <<4, 5>> >>)

\* the lists of up to n different position pairs among four portals
RECURSIVE PairLists(_)
PairLists(n) ==
    IF n = 0 THEN { <<>> }
    ELSE PairLists(n - 1) \cup
         { Append(x[1], x[2]) :
             x \in { y \in PairLists(n - 1) \X Range(PairsUpTo(4)) :
                       Len(y[1]) = n - 1 /\ y[2] \notin Range(y[1]) } }

\* the links of a pair list between the GraphPortals; the ends of every
\* other link are swapped, from the first on when q is odd
LinksOn(pairs, q) == [ k \in DOMAIN pairs |-> PairLink(GraphPortals, pairs[k], k + q) ]

\* the link lists handed to the field deriver and the path builder: up to
\* MaxLinks different links in every order
LinkLists == { LinksOn(pairs, q) : pairs \in PairLists(Min2(MaxLinks, 6)), q \in 0..1 }

\* _generate_fields(links)
GenerateFields(links) ==
    /\ ret.op = "none"
    /\ \E seed \in Seeds :
          ret' = [ op |-> "_generate_fields", fault |-> NoFault, links |-> links,
                   fields |-> generate_fields(links, seed) ]
    /\ UNCHANGED << portals, shapely >>

\* _generate_path(links) up to its while loop
GeneratePath(links) ==
    /\ ret.op = "none"
    /\ ret' = IF links = <<>>
              THEN [ op |-> "_generate_path", fault |-> NoFault, links |-> links, graph |-> <<>>,
                     visited_links |-> {}, path |-> <<>>, current |-> <<>>, done |-> TRUE ]
              ELSE [ op |-> "_generate_path", fault |-> NoFault, links |-> links,
                     graph |-> Graph(links),
                     visited_links |-> {}, path |-> << StartPortal(links) >>,
                     current |-> StartPortal(links), done |-> FALSE ]
    /\ UNCHANGED << portals, shapely >>

\* the while loop is at its test; done tells that the loop has ended and
\* path is what `return path` hands back
Walking == ret.op = "_generate_path" /\ ~ret.done

\* `while len(visited_links) < len(links)` fails: the loop ends
WalkCovered ==
    /\ Walking
    /\ ~(Cardinality(ret.visited_links) < Len(ret.links))
    /\ ret' = [ ret EXCEPT !.done = TRUE ]
    /\ UNCHANGED << portals, shapely >>

\* one pass of the loop that finds no neighbour and breaks
WalkBreak ==
    /\ Walking
    /\ Cardinality(ret.visited_links) < Len(ret.links)
    /\ BreaksAt(ret.links, ret.visited_links, ret.current, ret.graph[ret.current])
    /\ ret' = [ ret EXCEPT !.done = TRUE ]
    /\ UNCHANGED << portals, shapely >>

\* one pass of the loop that moves to best_next
WalkMoveTo(best_next) ==
    ret' = [ ret EXCEPT !.visited_links = @ \cup { LinkBetween(ret.links, ret.current, best_next) },
                        !.path = Append(@, best_next),
                        !.current = best_next ]

WalkMove ==
    /\ Walking
    /\ Cardinality(ret.visited_links) < Len(ret.links)
    /\ OpenAt(ret.links, ret.visited_links, ret.current, ret.graph[ret.current]) # {}
    /\ WalkMoveTo(BestNext(ret.links, ret.visited_links, ret.current, ret.graph[ret.current]))
    /\ UNCHANGED << portals, shapely >>

WalkStep == WalkCovered \/ WalkBreak \/ WalkMove

\* one call of _generate_path, from its first line to its return
NextWalk ==
    \/ ret.op = "none" /\ \E links \in LinkLists : GeneratePath(links)
    \/ WalkCovered
    \/ WalkBreak
    \/ WalkMove

SpecWalk == Init /\ [][NextWalk]_vars

\* the calls on the shorter link lists
NextShortWalk ==
    \/ ret.op = "none" /\ \E links \in { l \in LinkLists : Len(l) <= MaxWalkLinks } : GeneratePath(links)
    \/ WalkCovered
    \/ WalkBreak
    \/ WalkMove

\* the loop runs on: a pass that can be made is made
SpecWalkFair == Init /\ [][NextShortWalk]_vars /\ WF_vars(WalkStep)

\* the candidates sorted alone: two pairs of portals, each at lengths below
\* 1 km (score 0) and in the first three brackets
SortLinks ==
    { Link(LinkEnds[i], LinkEnds[i + 1], d) : i \in 1..2, d \in { 500, 900, 2000, 5000, 10000 } }

CandidateLists == SeqsUpTo(SortLinks, MaxCands)

\* possible_links.sort(key=lambda l: l.ap / max(l.distance, 1), reverse=True)
SortCandidates(possible_links) ==
    /\ ret.op = "none"
    /\ ret' = [ op |-> "sort", fault |-> NoFault, possible_links |-> possible_links,
                sorted |-> SortByDensity(possible_links) ]
    /\ UNCHANGED << portals, shapely >>

\* the points <<lon, lat>> the geometric tests are tried on
GridPoints == (0..GridMax) \X (0..GridMax)

\* the two segments in either order, each with its ends in either order
Orderings(p1, p2, p3, p4) ==
    { << p1, p2, p3, p4 >>, << p2, p1, p3, p4 >>, << p1, p2, p4, p3 >>, << p2, p1, p4, p3 >>,
      << p3, p4, p1, p2 >>, << p3, p4, p2, p1 >>, << p4, p3, p1, p2 >>, << p4, p3, p2, p1 >> }

\* _line_segments_intersect(p1, p2, p3, p4) on two segments of two ends
\* each, and what it returns when the same two segments are given in the
\* other orders
LineSegmentsIntersect(p1, p2, p3, p4) ==
    /\ ret.op = "none"
    /\ p1 # p2 /\ p3 # p4
    /\ ret' = [ op |-> "_line_segments_intersect", fault |-> NoFault,
                p1 |-> p1, p2 |-> p2, p3 |-> p3, p4 |-> p4,
                result |-> line_segments_intersect(p1, p2, p3, p4),
                results |-> { line_segments_intersect(v[1], v[2], v[3], v[4]) :
                                v \in Orderings(p1, p2, p3, p4) } ]
    /\ UNCHANGED << portals, shapely >>

\* the portal with id at the grid point <<lon, lat>>
PortalAt(id, pt) == Portal(id, NoName, pt[2], pt[1])

\* _point_in_triangle(p, a, b, c) on a triangle whose corners are not on
\* one line
PointInTriangle(p, a, b, c) ==
    /\ ret.op = "none"
    /\ Cross(a, b, c) # 0
    /\ ret' = [ op |-> "_point_in_triangle", fault |-> NoFault,
                p |-> PortalAt(3, p), a |-> PortalAt(0, a), b |-> PortalAt(1, b), c |-> PortalAt(2, c),
                result |-> point_in_triangle(PortalAt(3, p), PortalAt(0, a), PortalAt(1, b),
                                             PortalAt(2, c)) ]
    /\ UNCHANGED << portals, shapely >>

\* the calls are made one at a time, each on every input of its kind
NextParts ==
    \/ ret.op = "none" /\ \E p \in TestPortals, q \in TestPortals : PortalHashOf(p, q)
    \/ ret.op = "none" /\ \E p1 \in GridPoints, p2 \in GridPoints, p3 \in GridPoints, p4 \in GridPoints :
          LineSegmentsIntersect(p1, p2, p3, p4)
    \/ ret.op = "none" /\ \E p \in GridPoints, a \in GridPoints, b \in GridPoints, c \in GridPoints :
          PointInTriangle(p, a, b, c)
    \/ ret.op = "none" /\ \E possible_links \in CandidateLists : SortCandidates(possible_links)
    \/ ret.op = "none" /\ \E links \in LinkLists : GenerateFields(links)
    \/ Discard

SpecParts == Init /\ [][NextParts]_vars

\* ------------------------------------------------------------- properties
\* a Solution was returned: by plan(), by multi_agent_plan()'s call of
\* plan(), or by a direct call of _greedy_optimize
Returned == ret.op # "none" /\ ret.fault \notin {"QhullError"}
PlanReturned == ret.op = "plan" /\ ret.fault = NoFault
MultiReturned == ret.op = "multi_agent_plan" /\ ret.fault = NoFault

SharePortal(l1, l2) == LinkIds(l1)[1] \in Range(LinkIds(l2)) \/ LinkIds(l1)[2] \in Range(LinkIds(l2))

\* the two links cross at a point interior to both
LinksCrossProperly(l1, l2) ==
    ProperCross(LonLat(l1.portal1), LonLat(l1.portal2), LonLat(l2.portal1), LonLat(l2.portal2))

\* l1 and l2 share a portal or do not intersect
ApartOrJoined(l1, l2) ==
    ~SharePortal(l1, l2) =>
        /\ ~LinksCrossProperly(l1, l2)
        /\ ~check_link_intersection(l1, l2, shapely)

\* C1: any two links of a returned Solution that share no portal do not
\* intersect: they do not cross properly, and the intersection test the run
\* used (shapely's, or the orientation test without it) is false on them in
\* either order.
C1_NoCrossingLinks ==
    Returned =>
        \A i, j \in DOMAIN ret.solution.links :
            i # j => ApartOrJoined(ret.solution.links[i], ret.solution.links[j])

\* a Solution was returned for candidates of which two cross properly, and
\* it holds two links that share no portal
C1_Witness ==
    /\ Returned
    /\ \E i, j \in DOMAIN ret.possible_links :
          LinksCrossProperly(ret.possible_links[i], ret.possible_links[j])
    /\ \E i, j \in DOMAIN ret.solution.links :
          ~SharePortal(ret.solution.links[i], ret.solution.links[j])

\* the three id pairs of a field's portals
FieldPairs(f) ==
    { << Min2(a, b), Max2(a, b) >> : a \in FieldIds(f.portal1, f.portal2, f.portal3),
                                     b \in FieldIds(f.portal1, f.portal2, f.portal3) }
      \ { <<a, a>> : a \in FieldIds(f.portal1, f.portal2, f.portal3) }

\* the field has three distinct portals, its edges are links of the list
\* and join its portals pairwise
WellFormedField(f, links) ==
    /\ Cardinality(FieldIds(f.portal1, f.portal2, f.portal3)) = 3
    /\ \A i \in 1..3 : \E n \in DOMAIN links : LinkIds(links[n]) = LinkIds(f.links[i])
    /\ { LinkIds(f.links[i]) : i \in 1..3 } = FieldPairs(f)

\* C2: every Field of a returned Solution has three distinct portals, each
\* of its three edge Links is one of Solution.links, and the three edges
\* join the three portals pairwise.
C2_FieldEdgesAreLinks ==
    Returned =>
        \A k \in DOMAIN ret.solution.fields :
            WellFormedField(ret.solution.fields[k], ret.solution.links)

\* plan() returned a Solution with two fields or more
C2_Witness == PlanReturned /\ Len(ret.solution.fields) >= 2

\* the ends of the Solution's links
EndPortals(links) == { links[i].portal1 : i \in DOMAIN links } \cup { links[i].portal2 : i \in DOMAIN links }

\* p lies inside the triangle a b c or on its boundary; o is the
\* orientation of a b c (not flat)
InsideOrOnBy(p, a, b, c, o) ==
    /\ Cross(LatLon(a), LatLon(b), LatLon(p)) * o >= 0
    /\ Cross(LatLon(b), LatLon(c), LatLon(p)) * o >= 0
    /\ Cross(LatLon(c), LatLon(a), LatLon(p)) * o >= 0

InsideOrOn(p, a, b, c) == InsideOrOnBy(p, a, b, c, Cross(LatLon(a), LatLon(b), LatLon(c)))

\* the used portals, the three corners aside, inside or on the triangle
Enclosed(links, a, b, c) ==
    { p \in EndPortals(links) : p.id \notin {a.id, b.id, c.id} /\ InsideOrOn(p, a, b, c) }

Joined(links, a, b) ==
    \E i \in DOMAIN links : LinkIds(links[i]) = << Min2(a.id, b.id), Max2(a.id, b.id) >>

IsField(fields, a, b, c) ==
    \E k \in DOMAIN fields : FieldIds(fields[k].portal1, fields[k].portal2, fields[k].portal3) = {a.id, b.id, c.id}

\* the triples of used portals, in id order, joined pairwise by the links
\* and enclosing more than MaxPointsInField used portals
Overfull(links, ends) ==
    { t \in ends \X ends \X ends :
        /\ t[1].id < t[2].id /\ t[2].id < t[3].id
        /\ Joined(links, t[1], t[2]) /\ Joined(links, t[2], t[3]) /\ Joined(links, t[1], t[3])
        /\ Cardinality(Enclosed(links, t[1], t[2], t[3])) >= 9 }

\* C3: every Field of the Solution plan() returns encloses at most 8 used
\* portals besides its corners, boundary included; three portals joined
\* pairwise by accepted links that enclose 9 or more are no Field of it.
C3_FieldEnclosesAtMost8 ==
    PlanReturned =>
        /\ \A k \in DOMAIN ret.solution.fields :
              Cardinality(Enclosed(ret.solution.links, ret.solution.fields[k].portal1,
                                   ret.solution.fields[k].portal2, ret.solution.fields[k].portal3)) <= 8
        /\ \A t \in Overfull(ret.solution.links, EndPortals(ret.solution.links)) :
              ~IsField(ret.solution.fields, t[1], t[2], t[3])

\* plan() returned a Solution with fields in which three pairwise joined
\* portals enclose 9 used portals or more
C3_Witness ==
    /\ PlanReturned
    /\ Overfull(ret.solution.links, EndPortals(ret.solution.links)) # {}
    /\ Len(ret.solution.fields) >= 1

\* the links' scores added up, by the bracket table
LinkScoreSum(links) == SumSeq([ i \in DOMAIN links |-> LinkAp(links[i]) ])

\* C4: total_ap of a returned Solution is the sum of its links' scores plus
\* 1250 for each of its fields, and 0 for the empty Solution.
C4_TotalAp ==
    Returned =>
        /\ ret.solution.total_ap = LinkScoreSum(ret.solution.links) + 1250 * Len(ret.solution.fields)
        /\ (ret.solution.links = <<>> => ret.solution.total_ap = 0)

\* plan() returned a Solution with a field and a link that scores
C4_Witness ==
    /\ PlanReturned
    /\ Len(ret.solution.fields) >= 1
    /\ LinkScoreSum(ret.solution.links) > 0

RECURSIVE Concat(_)
Concat(ss) == IF ss = <<>> THEN <<>> ELSE Head(ss) \o Concat(Tail(ss))

AgentLinks == [ a \in DOMAIN ret.agent_plans |-> ret.agent_plans[a].links ]

\* the slices of K links among N agents, as the claim words them
NearEqualSlices(slices, links, K, N) ==
    /\ Len(slices) = N
    /\ Concat(slices) = links
    /\ SumSeq([ a \in DOMAIN slices |-> Len(slices[a]) ]) = K
    /\ \A a, b \in 1..N : Len(slices[a]) - Len(slices[b]) <= 1
    /\ \A a \in 1..N : Len(slices[a]) = (K \div N) + (IF a <= K % N THEN 1 ELSE 0)

FieldInside(f, links) ==
    \A i \in 1..3 : \E n \in DOMAIN links : LinkIds(links[n]) = LinkIds(f.links[i])

\* the agents that hold the field
Holders(f) == { a \in DOMAIN ret.agent_plans : \E k \in DOMAIN ret.agent_plans[a].fields :
                    ret.agent_plans[a].fields[k] = f }

\* at most one agent holds f, and none when no slice holds its three edges
HeldProperly(f) ==
    /\ Cardinality(Holders(f)) <= 1
    /\ (~\E a \in DOMAIN ret.agent_plans : FieldInside(f, ret.agent_plans[a].links))
          => Holders(f) = {}

\* C6: each agent's fields are the Solution's fields whose three edges all
\* lie in the agent's slice, in the Solution's order; a field whose edges
\* lie in no single slice is held by no agent, and no field by two agents.
C6_AgentFields ==
    MultiReturned =>
        /\ \A a \in DOMAIN ret.agent_plans :
              ret.agent_plans[a].fields =
                  SelectSeq(ret.solution.fields, LAMBDA f : FieldInside(f, ret.agent_plans[a].links))
        /\ \A k \in DOMAIN ret.solution.fields : HeldProperly(ret.solution.fields[k])

\* a split among two or more agents that keeps one field and drops another
C6_Witness ==
    /\ MultiReturned
    /\ ret.num_agents >= 2
    /\ \E k \in DOMAIN ret.solution.fields : Holders(ret.solution.fields[k]) # {}
    /\ \E k \in DOMAIN ret.solution.fields : Holders(ret.solution.fields[k]) = {}

\* the Solution's fields that no agent holds
DroppedFields == { k \in DOMAIN ret.solution.fields : Holders(ret.solution.fields[k]) = {} }

AgentApSum == SumSeq([ a \in DOMAIN ret.agent_plans |-> ret.agent_plans[a].ap ])

\* C7: whenever multi_agent_plan returns a MultiAgentSolution, its total_ap
\* is the unsplit Solution's total_ap, the agents' ap values add up to no
\* more than it, and the difference is 1250 for each field no agent holds.
C7_TotalApAndAgentSum ==
    MultiReturned =>
        /\ ret.total_ap = ret.solution.total_ap
        /\ AgentApSum <= ret.total_ap
        /\ ret.total_ap - AgentApSum = 1250 * Cardinality(DroppedFields)

\* the ap, path and distance of an AgentPlan are those of its own links
OwnApAndPath(pl) ==
    /\ pl.ap = LinkScoreSum(pl.links) + 1250 * Len(pl.fields)
    /\ pl.path = generate_path(pl.links)
    /\ pl.distance = calculate_path_distance(generate_path(pl.links))

\* C8: each AgentPlan's ap is the sum of its own links' scores plus 1250 for
\* each of its fields, its path is the Path Builder's walk of its own links,
\* and its distance the length of that path.
C8_AgentApAndPath ==
    MultiReturned => \A a \in DOMAIN ret.agent_plans : OwnApAndPath(ret.agent_plans[a])

\* an agent of a split that holds a field and some, not all, of the links
C8_Witness ==
    /\ MultiReturned
    /\ \E a \in DOMAIN ret.agent_plans :
          /\ Len(ret.agent_plans[a].fields) >= 1
          /\ Len(ret.agent_plans[a].links) < Len(ret.solution.links)
          /\ ret.agent_plans[a].path # ret.solution.path

\* C9: multi_agent_plan called with an agent count of 0 or less raises a
\* fault and returns nothing.
C9_InvalidAgentCountRaises ==
    (ret.op = "multi_agent_plan" /\ ret.num_agents <= 0) => ret.fault # NoFault

\* C10: plan() on a session of fewer than 3 portals returns the empty
\* Solution and raises nothing.
C10_FewPortalsEmptySolution ==
    (ret.op = "plan" /\ Len(portals) < 3) =>
        /\ ret.fault = NoFault
        /\ ret.solution.links = <<>>
        /\ ret.solution.fields = <<>>
        /\ ret.solution.total_ap = 0
        /\ ret.solution.distance = 0
        /\ ret.solution.path = <<>>

\* plan() ran on a session of exactly 2 portals
C10_Witness == ret.op = "plan" /\ Len(portals) = 2

\* C11: plan() on 3 or more portals that all lie on one line returns the
\* empty Solution and raises no fault.
C11_CollinearEmptySolution ==
    (ret.op = "plan" /\ Len(portals) >= 3 /\ Degenerate(portals)) =>
        /\ ret.fault = NoFault
        /\ ret.solution = EmptySolution

\* plan() returned to multi_agent_plan a Solution without links
EmptyPlanned ==
    /\ ret.op = "multi_agent_plan"
    /\ ret.fault # "QhullError"
    /\ ret.solution.links = <<>>

\* C12: multi_agent_plan on a portal list whose Solution has no links
\* returns, for every agent count N >= 1, a MultiAgentSolution with no agent
\* plans and total_ap 0.
C12_EmptySolutionNoAgentPlans ==
    (EmptyPlanned /\ ret.num_agents >= 1) =>
        /\ ret.fault = NoFault
        /\ ret.agent_plans = <<>>
        /\ ret.total_ap = 0

\* multi_agent_plan ran with two agents or more on fewer than 3 portals
C12_Witness == EmptyPlanned /\ ret.num_agents >= 2 /\ Len(portals) < 3

\* the links are the three sides of the triangle of portals 0, 1 and 2
ClosedTriangle(links) ==
    /\ Len(links) = 3
    /\ { LinkIds(links[i]) : i \in DOMAIN links } = { <<0, 1>>, <<0, 2>>, <<1, 2>> }

\* C13: for three portals not on one line plan() returns exactly the 3
\* links of their triangle and exactly 1 field, on these three portals.
C13_TriangleOfThree ==
    (ret.op = "plan" /\ Len(portals) = 3 /\ ~Degenerate(portals)) =>
        /\ ret.fault = NoFault
        /\ ClosedTriangle(ret.solution.links)
        /\ Len(ret.solution.fields) = 1
        /\ WellFormedField(ret.solution.fields[1], ret.solution.links)

\* plan() ran on three portals not on one line whose links do not all
\* score the same
C13_Witness ==
    /\ PlanReturned
    /\ Len(portals) = 3
    /\ ~Degenerate(portals)
    /\ \E i, j \in DOMAIN ret.solution.links :
          LinkAp(ret.solution.links[i]) # LinkAp(ret.solution.links[j])

\* the candidate at place k of the examined order crosses, by the test the
\* run uses, a link of accepted examined before it
CrossesEarlier(sorted, k, accepted) ==
    \E j \in 1..(k - 1) :
        /\ LinkIn(sorted[j], accepted)
        /\ check_link_intersection(sorted[k], sorted[j], shapely)

\* accepted is what the rule of the selector leaves of the candidates in
\* their examined order
AcceptedByRule(sorted, accepted) ==
    /\ \A k \in DOMAIN sorted :
          LinkIn(sorted[k], accepted) <=> ~CrossesEarlier(sorted, k, accepted)
    /\ \A l \in accepted : LinkIn(l, Range(sorted))

BracketScore(d) ==
    IF d < 1000 THEN 0
    ELSE IF d < 5000 THEN 313
    ELSE IF d < 10000 THEN 1250
    ELSE IF d < 25000 THEN 1563
    ELSE IF d < 50000 THEN 2500
    ELSE IF d < 100000 THEN 3125
    ELSE IF d < 150000 THEN 3750
    ELSE IF d < 200000 THEN 4375
    ELSE 5000

\* C14: Link.ap follows the bracket table, each bracket closed at its lower
\* bound and open at its upper bound; a link of exactly 5000 m scores 1250,
\* and the score never decreases as the distance grows.
C14_LinkApBrackets ==
    ret.op = "Link.ap" =>
        /\ ret.ap1 = BracketScore(ret.d1)
        /\ ret.ap2 = BracketScore(ret.d2)
        /\ (ret.d1 = 5000 => ret.ap1 = 1250)
        /\ (ret.d1 <= ret.d2 => ret.ap1 <= ret.ap2)

\* Link.ap was read at 5000 m and one meter below it
C14_Witness == ret.op = "Link.ap" /\ ret.d1 = 5000 /\ ret.d2 = 4999

\* the two links join the same unordered pair of portal ids
SamePair(l1, l2) ==
    { l1.portal1.id, l1.portal2.id } = { l2.portal1.id, l2.portal2.id }

\* C15: two Links are equal, and have the same hash, exactly when they join
\* the same unordered pair of portal ids, whatever their distances and the
\* order of their ends; a set of Links holds one Link per unordered pair.
C15_LinkEqByUnorderedPair ==
    ret.op = "Link.__eq__" =>
        /\ ret.eq <=> SamePair(ret.link1, ret.link2)
        /\ (ret.eq /\ ret.same_hash) <=> SamePair(ret.link1, ret.link2)
        /\ ret.set_size = (IF SamePair(ret.link1, ret.link2) THEN 1 ELSE 2)

\* Link(A, B, d1) compared with Link(B, A, d2), A # B and d1 # d2
C15_Witness ==
    /\ ret.op = "Link.__eq__"
    /\ ret.link1.portal1 = ret.link2.portal2
    /\ ret.link1.portal2 = ret.link2.portal1
    /\ ret.link1.portal1.id # ret.link1.portal2.id
    /\ ret.link1.distance # ret.link2.distance

\* C16: two Portals compare equal exactly when their ids are equal,
\* whatever their names and coordinates.
C16_PortalEqById ==
    ret.op = "Portal.__eq__" => (ret.eq <=> ret.left.id = ret.right.id)

\* two Portals of one id compared that differ in name and in place
C16_Witness ==
    /\ ret.op = "Portal.__eq__"
    /\ ret.left.id = ret.right.id
    /\ ret.left.name # ret.right.name
    /\ ret.left.lat # ret.right.lat

\* C17: after any sequence of add_portal, load_portals_from_file and
\* plan(portals) calls the portal at position i of the session's list
\* (counted from 0) has id i.
C17_IdsArePositions == \A i \in DOMAIN portals : portals[i].id = i - 1

\* a list loaded from a file of named portals that add_portal added to
C17_Witness ==
    /\ Len(portals) >= 3
    /\ \E i \in DOMAIN portals : portals[i].name # NoName
    /\ portals[Len(portals)].name = NoName

\* the fields of a line
LineFields(line) == Split(Strip(line), ",")

\* the line is one the format allows: not blank, no comment, 2 fields
\* lat,lon or 3 fields name,lat,lon, the coordinates numeric
WellFormedLine(line) ==
    /\ Strip(line) # <<>>
    /\ ~StartsWith(Strip(line), "#")
    /\ \/ /\ Len(LineFields(line)) = 2
          /\ IsFloat(LineFields(line)[1]) /\ IsFloat(LineFields(line)[2])
       \/ /\ Len(LineFields(line)) = 3
          /\ IsFloat(LineFields(line)[2]) /\ IsFloat(LineFields(line)[3])

\* C18: load_portals_from_file adds a Portal for the lines of 2 or 3 fields
\* with numeric coordinates alone, raising nothing: every other line adds
\* no Portal and takes no id, so reading the file gives what reading its
\* well-formed lines alone gives, one Portal for each.
C18_MalformedLinesSkipped ==
    (ret.op = "load_portals_from_file" /\ ~ret.from_save) =>
        /\ ret.fault = NoFault
        /\ Len(portals) = Len(SelectSeq(ret.file, WellFormedLine))
        /\ portals = load_portals_from_file(SelectSeq(ret.file, WellFormedLine))

\* the portal is the entry <<name, lat, lon>> with the id
SameAsSaved(portal, entry, id) ==
    /\ portal.id = id
    /\ portal.name = entry[1]
    /\ portal.lat = entry[2]
    /\ portal.lon = entry[3]

\* C19: reading back a file save_to_file wrote gives as many Portals as
\* were saved, in order, with the same names and coordinates and ids equal
\* to their positions, for every name.
C19_SaveLoadRoundTrip ==
    (ret.op = "load_portals_from_file" /\ ret.from_save) =>
        /\ Len(portals) = Len(ret.saved)
        /\ \A i \in DOMAIN portals : i \in DOMAIN ret.saved =>
              SameAsSaved(portals[i], ret.saved[i], i - 1)

\* C30: two Portals that compare equal have the same hash, whatever their
\* coordinates, and a set they are both added to holds one element.
C30_PortalHashConsistent ==
    (ret.op = "Portal.__hash__" /\ ret.eq) => (ret.same_hash /\ ret.set_size = 1)

\* C22: the segment-intersection test is true exactly when the two segments
\* cross at one point interior to both (so it is false when they only touch
\* or are apart), and it returns the same for the two segments in either
\* order and with their ends in either order.
C22_SegmentsCrossProperly ==
    ret.op = "_line_segments_intersect" =>
        /\ ret.result <=> ProperCross(ret.p1, ret.p2, ret.p3, ret.p4)
        /\ ret.results = { ret.result }

\* twice the area of the triangle a b c
Area2(a, b, c) == IF Cross(a, b, c) < 0 THEN 0 - Cross(a, b, c) ELSE Cross(a, b, c)

\* p is one of the points u a + v b + w c with u, v, w >= 0 and u + v + w = 1;
\* the weights are counted in units of 1 / Area2
InHullBy(p, a, b, c, D) ==
    \E u, v \in 0..D :
        /\ u + v <= D
        /\ \A k \in 1..2 : D * p[k] = u * a[k] + v * b[k] + (D - u - v) * c[k]

InHull(p, a, b, c) == InHullBy(p, a, b, c, Area2(a, b, c))

\* C23: _point_in_triangle is true exactly for the points inside the
\* triangle or on its boundary, whichever way round the corners are given.
C23_PointInTriangleClosed ==
    ret.op = "_point_in_triangle" =>
        (ret.result <=> InHull(LatLon(ret.p), LatLon(ret.a), LatLon(ret.b), LatLon(ret.c)))

\* a point on an edge, not a corner, of a clockwise triangle was found inside
C23_Witness ==
    /\ ret.op = "_point_in_triangle"
    /\ ret.result
    /\ Cross(LatLon(ret.a), LatLon(ret.b), LatLon(ret.c)) < 0
    /\ LatLon(ret.p) \notin { LatLon(ret.a), LatLon(ret.b), LatLon(ret.c) }
    /\ \/ Cross(LatLon(ret.a), LatLon(ret.b), LatLon(ret.p)) = 0
       \/ Cross(LatLon(ret.b), LatLon(ret.c), LatLon(ret.p)) = 0
       \/ Cross(LatLon(ret.c), LatLon(ret.a), LatLon(ret.p)) = 0

\* the density of l1 is at least that of l2, and the two are equal
AsDense(l1, l2) == LinkAp(l1) * Max2(l2.distance, 1) >= LinkAp(l2) * Max2(l1.distance, 1)

SameDensity(l1, l2) == AsDense(l1, l2) /\ AsDense(l2, l1)

\* the ways to take the n places of a list in another order
Rearrangements(n) == { f \in [ 1..n -> 1..n ] : \A i, j \in 1..n : f[i] = f[j] => i = j }

\* sorted holds the candidates in the order from: never a sparser link
\* before a denser one, links of one density in their list order
ExaminedInOrder(cands, sorted, from) ==
    /\ \A k \in DOMAIN sorted : sorted[k] = cands[from[k]]
    /\ \A k, m \in DOMAIN sorted : k < m =>
          /\ AsDense(sorted[k], sorted[m])
          /\ SameDensity(sorted[k], sorted[m]) => from[k] < from[m]

\* C21: the selector examines the candidates by descending
\* score / max(distance, 1); candidates of equal density, those of
\* density 0 among them, keep the order of the candidate list.
C21_DescendingDensityStable ==
    ret.op = "sort" =>
        /\ Len(ret.sorted) = Len(ret.possible_links)
        /\ \E from \in Rearrangements(Len(ret.possible_links)) :
              ExaminedInOrder(ret.possible_links, ret.sorted, from)

\* two different links shorter than 1 km came before a denser one
C21_Witness ==
    /\ ret.op = "sort"
    /\ Len(ret.possible_links) = 3
    /\ ret.possible_links[1] # ret.possible_links[2]
    /\ ret.possible_links[1].distance < 1000 /\ ret.possible_links[2].distance < 1000
    /\ ~AsDense(ret.possible_links[1], ret.possible_links[3])
    /\ ret.sorted = << ret.possible_links[3], ret.possible_links[1], ret.possible_links[2] >>

\* the ids of the three portals of a field
CornerIds(f) == { f.portal1.id, f.portal2.id, f.portal3.id }

\* two portal ids are the ends of a link of the list
LinkedIds(links, a, b) ==
    \E n \in DOMAIN links : { links[n].portal1.id, links[n].portal2.id } = { a, b }

\* the sets of three portal ids pairwise joined by links of the list
TrianglesOf(links) ==
    { T \in SUBSET ({ links[n].portal1.id : n \in DOMAIN links } \cup
                     { links[n].portal2.id : n \in DOMAIN links }) :
        /\ Cardinality(T) = 3
        /\ \A a, b \in T : a # b => LinkedIds(links, a, b) }

\* C24: _generate_fields lists one Field for every three portals pairwise
\* joined by links of its input, each once, and no other Field.
C24_OneFieldPerTriangle ==
    ret.op = "_generate_fields" =>
        /\ \A k \in DOMAIN ret.fields : CornerIds(ret.fields[k]) \in TrianglesOf(ret.links)
        /\ \A T \in TrianglesOf(ret.links) :
              Cardinality({ k \in DOMAIN ret.fields : CornerIds(ret.fields[k]) = T }) = 1

\* five links that close two triangles on a shared edge
C24_Witness ==
    /\ ret.op = "_generate_fields"
    /\ Len(ret.links) = 5
    /\ Cardinality(TrianglesOf(ret.links)) = 2
    /\ Len(ret.fields) = 2

\* _generate_path returned: its loop has ended
PathReturned == ret.op = "_generate_path" /\ ret.done

\* the pairs of portal ids the path goes over, one for each move
PathEdge(path, i) == { path[i].id, path[i + 1].id }

PathEdges(path) == { PathEdge(path, i) : i \in 1..(Len(path) - 1) }

\* the links of the list the path does not go over
Untraversed(links, path) ==
    { n \in DOMAIN links : { links[n].portal1.id, links[n].portal2.id } \notin PathEdges(path) }

\* a link the path does not go over ends at the portal with this id
OpenEndAt(links, path, id) ==
    \E n \in Untraversed(links, path) : id \in { links[n].portal1.id, links[n].portal2.id }

\* the number of links of the list that end at the portal with this id
DegreeOf(links, id) ==
    Cardinality({ n \in DOMAIN links : id \in { links[n].portal1.id, links[n].portal2.id } })

LinkEndIds(links) ==
    { links[n].portal1.id : n \in DOMAIN links } \cup { links[n].portal2.id : n \in DOMAIN links }

\* C25: the walk stops before it went over every link only when no portal
\* adjacent to the last one has a link left: else it moves on to such a portal.
C25_WalkGoesOnFromDeadEnd ==
    (PathReturned /\ Untraversed(ret.links, ret.path) # {}) =>
        ~\E id \in LinkEndIds(ret.links) :
            /\ LinkedIds(ret.links, ret.path[Len(ret.path)].id, id)
            /\ OpenEndAt(ret.links, ret.path, id)

\* C26: the walk of _generate_path ends for every link list, raising
\* nothing, and never makes more moves than there are links.
C26_PathTerminates ==
    /\ [](ret.op = "_generate_path" =>
            (ret.fault = NoFault /\ Len(ret.path) <= Len(ret.links) + 1))
    /\ (Walking ~> PathReturned)

\* the walk ended on links in two parts that share no portal, one of the
\* parts not visited
C26_Witness ==
    /\ PathReturned
    /\ Len(ret.links) >= 2
    /\ \E id \in LinkEndIds(ret.links) :
          /\ \A i \in DOMAIN ret.path : ret.path[i].id # id
          /\ \A i \in DOMAIN ret.path : ~LinkedIds(ret.links, ret.path[i].id, id)

\* C28: two consecutive portals of the path are joined by a link of the
\* list, no link is gone over twice, the path starts at a portal of the
\* least degree, is empty exactly for the empty list, and when it leaves
\* links out its last portal has no link left; it is the path
\* _generate_path hands to the Solution.
C28_PathWellFormed ==
    PathReturned =>
        /\ \A i \in 1..(Len(ret.path) - 1) :
              LinkedIds(ret.links, ret.path[i].id, ret.path[i + 1].id)
        /\ \A i, j \in 1..(Len(ret.path) - 1) :
              i # j => PathEdge(ret.path, i) # PathEdge(ret.path, j)
        /\ Len(ret.path) <= Len(ret.links) + 1
        /\ ret.links # <<>> =>
              \A id \in LinkEndIds(ret.links) :
                  DegreeOf(ret.links, ret.path[1].id) <= DegreeOf(ret.links, id)
        /\ (ret.path = <<>>) <=> (ret.links = <<>>)
        /\ Untraversed(ret.links, ret.path) # {} =>
              ~OpenEndAt(ret.links, ret.path, ret.path[Len(ret.path)].id)
        /\ ret.path = generate_path(ret.links)

\* the walk made three moves or more and left a link out
C28_Witness ==
    /\ PathReturned
    /\ Len(ret.path) >= 4
    /\ Untraversed(ret.links, ret.path) # {}

\* the candidates the Solution left out
LeftOut == { k \in DOMAIN ret.possible_links :
               ~LinkIn(ret.possible_links[k], Range(ret.solution.links)) }

IdlePlan(pl) ==
    /\ pl.links = <<>>
    /\ pl.fields = <<>>
    /\ pl.ap = 0
    /\ pl.distance = 0
    /\ pl.path = <<>>

\* C29: multi_agent_plan on a Solution of K >= 1 links returns one plan for
\* each of the N >= 1 agents; when N exceeds K the plans after the K-th are
\* idle.
C29_OnePlanPerAgent ==
    (MultiReturned /\ ret.num_agents >= 1 /\ ret.solution.links # <<>>) =>
        /\ Len(ret.agent_plans) = ret.num_agents
        /\ \A a \in DOMAIN ret.agent_plans :
              a > Len(ret.solution.links) => IdlePlan(ret.agent_plans[a])

\* more agents than links by two: the last two plans are idle, the others not
C29_Witness ==
    /\ MultiReturned
    /\ ret.solution.links # <<>>
    /\ ret.num_agents = Len(ret.solution.links) + 2
    /\ Len(ret.agent_plans) = ret.num_agents
    /\ \A a \in DOMAIN ret.agent_plans :
          IdlePlan(ret.agent_plans[a]) <=> a > Len(ret.solution.links)

=============================================================================
